---- MODULE Spec2Model ----
(***************************************************************************)
(* A model of the local-LLM backend of the AI AutoFill extension:          *)
(*   - src/src/local_llm/transformers_llm.py : the generation adapter      *)
(*     (LocalLLM.__init__, generate_response, _format_prompt,              *)
(*     _clean_response, main);                                             *)
(*   - src/setup_local_llm.py : the dependency installer (main,            *)
(*     install_package).                                                   *)
(* Python strings are sequences of one-character strings, so that          *)
(* startswith, "in", split, strip and lower are computed character by      *)
(* character.                                                              *)
(***************************************************************************)
EXTENDS Integers, Sequences, FiniteSets, TLC

VARIABLES
    pc,                 \* position of the running script
    model_name,         \* args.model / LocalLLM.model_name
    prompt,             \* args.prompt
    formatted_prompt,   \* generate_response: formatted_prompt
    generated_text,     \* generate_response: generated_text
    response,           \* the value generate_response returns
    recleaned,          \* _clean_response applied to its own output
    device,             \* LocalLLM.device
    tokenizer,          \* LocalLLM.tokenizer
    model,              \* LocalLLM.model
    generator,          \* LocalLLM.generator
    seed,               \* the seed last given to set_seed
    genCalls,           \* number of calls of self.generator
    loads,              \* the from_pretrained calls made, in order
    stdout,             \* lines printed to standard output
    stderr,             \* lines printed to the error stream
    exitCode,           \* exit status of the process (-1 while running)
    raisedAt,           \* step at which an Exception was raised ("none")
    raisedMsg,          \* str(e) of that exception
    interruptedAt,      \* step at which KeyboardInterrupt arrived ("none")
    idx,                \* installer: index of the next package
    failed_packages,    \* installer: failed_packages
    attempts,           \* installer: packages handed to pip, in order
    verified            \* installer: outcome of the import test

textVars == <<model_name, prompt, formatted_prompt, generated_text, response, recleaned>>
llmVars == <<device, tokenizer, model, generator, seed, genCalls, loads>>
procVars == <<stdout, stderr, exitCode, raisedAt, raisedMsg, interruptedAt>>
instVars == <<idx, failed_packages, attempts, verified>>
vars == <<pc, textVars, llmVars, procVars, instVars>>

-----------------------------------------------------------------------------
(* Bounds of the model.                                                    *)

\* generated texts are built from at most MaxFrags fragments
MaxFrags == 3
\* model names are built from at most MaxNameFrags fragments
MaxNameFrags == 2

-----------------------------------------------------------------------------
(* String literals of the source, character by character.                  *)

NL == "\n"
TAB == "\t"
S_DialoGPT ==
    <<"D", "i", "a", "l", "o", "G", "P", "T">>
S_TinyLlama ==
    <<"T", "i", "n", "y", "L", "l", "a", "m", "a">>
S_chat ==
    <<"c", "h", "a", "t">>
S_Chat ==
    <<"C", "h", "a", "t">>
S_CHAT ==
    <<"C", "H", "A", "T">>
S_gpt2 ==
    <<"g", "p", "t", "2">>
S_Slash ==
    <<"/">>
S_User ==
    <<"U", "s", "e", "r", ":", " ">>
S_Bot ==
    <<NL, "B", "o", "t", ":">>
S_UserTag ==
    <<"<", "|", "u", "s", "e", "r", "|", ">", NL>>
S_AssistantTag ==
    <<NL, "<", "|", "a", "s", "s", "i", "s", "t", "a", "n", "t", "|", ">", NL>>
S_Question ==
    <<"Q", "u", "e", "s", "t", "i", "o", "n", ":", " ">>
S_Answer ==
    <<NL, "A", "n", "s", "w", "e", "r", ":">>
T_NlUser ==
    <<NL, "U", "s", "e", "r", ":">>
T_NlQuestion ==
    <<NL, "Q", "u", "e", "s", "t", "i", "o", "n", ":">>
T_NlNl ==
    <<NL, NL>>
T_UserTag ==
    <<"<", "|", "u", "s", "e", "r", "|", ">">>
T_EndOfText ==
    <<"<", "|", "e", "n", "d", "o", "f", "t", "e", "x", "t", "|", ">">>
P_Hi ==
    <<"H", "i">>
P_Joke ==
    <<"T", "e", "l", "l", " ", "m", "e", " ", "a", " ", "j", "o", "k", "e">>
F_UserColon ==
    <<"U", "s", "e", "r", ":">>
F_QuestionColon ==
    <<"Q", "u", "e", "s", "t", "i", "o", "n", ":">>
X_Example ==
    <<"Q", "u", "e", "s", "t", "i", "o", "n", ":", " ", "H", "i", NL, "A", "n", "s", "w", "e", "r", ":", " ", "I", " ", "a", "m", " ", "f", "i", "n", "e", NL, "U", "s", "e", "r", ":", " ", "n", "e", "x", "t">>
X_IAmFine ==
    <<"I", " ", "a", "m", " ", "f", "i", "n", "e">>
X_JokeFormatted ==
    <<"U", "s", "e", "r", ":", " ", "T", "e", "l", "l", " ", "m", "e", " ", "a", " ", "j", "o", "k", "e", NL, "B", "o", "t", ":">>
S_ErrorPrefix ==
    <<"E", "r", "r", "o", "r", ":", " ", "C", "o", "u", "l", "d", " ", "n", "o", "t", " ", "g", "e", "n", "e", "r", "a", "t", "e", " ", "r", "e", "s", "p", "o", "n", "s", "e", " ", "-", " ">>
S_ErrorMarker ==
    <<"E", "r", "r", "o", "r", ":", " ", "C", "o", "u", "l", "d", " ", "n", "o", "t", " ", "g", "e", "n", "e", "r", "a", "t", "e", " ", "r", "e", "s", "p", "o", "n", "s", "e">>
S_Interrupted ==
    <<"P", "r", "o", "c", "e", "s", "s", " ", "i", "n", "t", "e", "r", "r", "u", "p", "t", "e", "d">>
E_OOM ==
    <<"C", "U", "D", "A", " ", "o", "u", "t", " ", "o", "f", " ", "m", "e", "m", "o", "r", "y">>
E_NotFound ==
    <<"m", "o", "d", "e", "l", " ", "n", "o", "t", " ", "f", "o", "u", "n", "d">>
E_Index ==
    <<"l", "i", "s", "t", " ", "i", "n", "d", "e", "x", " ", "o", "u", "t", " ", "o", "f", " ", "r", "a", "n", "g", "e">>

-----------------------------------------------------------------------------
(* Python string primitives.                                               *)

SetMin(S) == CHOOSE x \in S : \A y \in S : x <= y
SetMax(S) == CHOOSE x \in S : \A y \in S : x >= y

\* the characters str.strip() removes (ASCII whitespace)
Whitespace == {" ", NL, TAB, "\r", "\f"}

\* str.lower() on the letters
LowerMap ==
    [A |-> "a", B |-> "b", C |-> "c", D |-> "d", E |-> "e", F |-> "f", G |-> "g",
     H |-> "h", I |-> "i", J |-> "j", K |-> "k", L |-> "l", M |-> "m", N |-> "n",
     O |-> "o", P |-> "p", Q |-> "q", R |-> "r", S |-> "s", T |-> "t", U |-> "u",
     V |-> "v", W |-> "w", X |-> "x", Y |-> "y", Z |-> "z"]

Lower(s) == [i \in 1..Len(s) |-> IF s[i] \in DOMAIN LowerMap THEN LowerMap[s[i]] ELSE s[i]]

\* s.startswith(p)
StartsWith(s, p) == Len(s) >= Len(p) /\ SubSeq(s, 1, Len(p)) = p

\* s.find(t): 0-based index of the first occurrence of t in s, -1 if none
Find(s, t) ==
    LET occ == {i \in 0..(Len(s) - Len(t)) : SubSeq(s, i + 1, i + Len(t)) = t}
    IN  IF occ = {} THEN -1 ELSE SetMin(occ)

\* t in s
Contains(s, t) == Find(s, t) >= 0

\* s.split(t)[0], for t occurring in s
SplitFirst(s, t) == SubSeq(s, 1, Find(s, t))

\* s.strip()
Strip(s) ==
    LET keep == {i \in 1..Len(s) : s[i] \notin Whitespace}
    IN  IF keep = {} THEN <<>> ELSE SubSeq(s, SetMin(keep), SetMax(keep))

-----------------------------------------------------------------------------
(* LocalLLM._format_prompt and LocalLLM._clean_response.                   *)

\* mutant of format_prompt: the chat test comes before the DialoGPT test
format_prompt_chat_first(name, p) ==
    IF Contains(name, S_TinyLlama) \/ Contains(Lower(name), S_chat)
    THEN S_UserTag \o p \o S_AssistantTag
    ELSE IF Contains(name, S_DialoGPT)
         THEN S_User \o p \o S_Bot
         ELSE S_Question \o p \o S_Answer

format_prompt(name, p) ==
    IF Contains(name, S_DialoGPT)
    THEN S_User \o p \o S_Bot
    ELSE IF Contains(name, S_TinyLlama) \/ Contains(Lower(name), S_chat)
         THEN S_UserTag \o p \o S_AssistantTag
         ELSE S_Question \o p \o S_Answer

\* mutant of stop_tokens: the end-of-text marker is missing
stop_tokens_without_eot == <<T_NlUser, T_NlQuestion, T_NlNl, T_UserTag>>

stop_tokens == <<T_NlUser, T_NlQuestion, T_NlNl, T_UserTag, T_EndOfText>>

\* the prompt-removal branch of _clean_response
RemovePrompt(text, original_prompt) ==
    IF StartsWith(text, original_prompt)
    THEN Strip(SubSeq(text, Len(original_prompt) + 1, Len(text)))
    ELSE Strip(text)

\* mutant of StopAt: cuts at the last occurrence (rsplit(stop_token, 1)[0])
StopAtLast(resp, stop_token) ==
    LET occ == {i \in 0..(Len(resp) - Len(stop_token)) :
                   SubSeq(resp, i + 1, i + Len(stop_token)) = stop_token}
    IN  IF occ = {} THEN resp ELSE SubSeq(resp, 1, SetMax(occ))

\* one iteration of the loop over stop_tokens
StopAt(resp, stop_token) ==
    IF Contains(resp, stop_token) THEN SplitFirst(resp, stop_token) ELSE resp

RECURSIVE StopLoop(_, _)
StopLoop(resp, k) ==
    IF k > Len(stop_tokens) THEN resp
    ELSE StopLoop(StopAt(resp, stop_tokens[k]), k + 1)

\* mutant of clean_response: the final strip() is missing
clean_response_no_final_strip(text, original_prompt) ==
    StopLoop(RemovePrompt(text, original_prompt), 1)

clean_response(text, original_prompt) ==
    Strip(StopLoop(RemovePrompt(text, original_prompt), 1))

-----------------------------------------------------------------------------
(* Inputs.                                                                 *)

\* fragments model names are made of
NameFrags == {S_DialoGPT, S_TinyLlama, S_chat, S_Chat, S_CHAT, S_gpt2, S_Slash}

Prompts == {P_Hi, P_Joke, <<"a", NL, NL, "b">>}

\* fragments a model's continuation is made of
TextFrags == {<<NL>>, <<" ">>, <<"a">>, F_UserColon, F_QuestionColon, T_UserTag, T_EndOfText}

RECURSIVE Concats(_, _)
Concats(frags, n) ==
    IF n = 0 THEN {<<>>}
    ELSE LET shorter == Concats(frags, n - 1)
         IN  shorter \cup {t \o f : t \in shorter, f \in frags}

ModelNames == Concats(NameFrags, MaxNameFrags)

\* what the generation pipeline may hand back for a formatted prompt: the
\* prompt echoed and continued, or a text that does not echo it
GeneratedTexts(p) ==
    LET conts == Concats(TextFrags \cup {p}, MaxFrags)
    IN  conts \cup {p \o c : c \in conts} \cup {X_Example}

Unset == <<>>

\* an attribute of LocalLLM that has not been assigned yet
NoObject == [unset |-> TRUE]

IdleLlm ==
    /\ device = "unset" /\ tokenizer = NoObject /\ model = NoObject
    /\ generator = NoObject /\ seed = -1 /\ genCalls = 0 /\ loads = <<>>
IdleProc ==
    /\ stdout = <<>> /\ stderr = <<>> /\ exitCode = -1
    /\ raisedAt = "none" /\ raisedMsg = Unset /\ interruptedAt = "none"
IdleInst ==
    /\ idx = 1 /\ failed_packages = <<>> /\ attempts = <<>> /\ verified = "untested"

-----------------------------------------------------------------------------
(* Specification of _format_prompt on its own.                             *)

InitFormat ==
    /\ pc = "format"
    /\ model_name \in ModelNames
    /\ prompt \in Prompts
    /\ formatted_prompt = Unset /\ generated_text = Unset
    /\ response = Unset /\ recleaned = Unset
    /\ IdleLlm /\ IdleProc /\ IdleInst

FormatStep ==
    /\ pc = "format"
    /\ formatted_prompt' = format_prompt(model_name, prompt)
    /\ pc' = "formatted"
    /\ UNCHANGED <<model_name, prompt, generated_text, response, recleaned>>
    /\ UNCHANGED <<llmVars, procVars, instVars>>

NextFormat == FormatStep

SpecFormat == InitFormat /\ [][NextFormat]_vars

-----------------------------------------------------------------------------
(* Specification of _clean_response on its own.                            *)

\* one model name per template
TemplateNames == {S_DialoGPT, S_TinyLlama, S_gpt2}

InitClean ==
    /\ pc = "clean"
    /\ model_name \in TemplateNames
    /\ prompt = P_Hi
    /\ formatted_prompt = format_prompt(model_name, prompt)
    /\ generated_text \in GeneratedTexts(formatted_prompt)
    /\ response = Unset /\ recleaned = Unset
    /\ IdleLlm /\ IdleProc /\ IdleInst

CleanStep ==
    /\ pc = "clean"
    /\ response' = clean_response(generated_text, formatted_prompt)
    /\ pc' = "cleaned"
    /\ UNCHANGED <<model_name, prompt, formatted_prompt, generated_text, recleaned>>
    /\ UNCHANGED <<llmVars, procVars, instVars>>

RecleanStep ==
    /\ pc = "cleaned"
    /\ recleaned' = clean_response(response, formatted_prompt)
    /\ pc' = "recleaned"
    /\ UNCHANGED <<model_name, prompt, formatted_prompt, generated_text, response>>
    /\ UNCHANGED <<llmVars, procVars, instVars>>

NextClean == CleanStep \/ RecleanStep

SpecClean == InitClean /\ [][NextClean]_vars

-----------------------------------------------------------------------------
(* The generation adapter: main() of transformers_llm.py, step by step.    *)

\* the constant handed to set_seed
Seed == 42

AdapterModels == {S_DialoGPT, S_TinyLlama, S_gpt2}
AdapterPrompts == {P_Hi, P_Joke}

\* str(e) of the exceptions the library may raise
Messages == {E_OOM, E_NotFound}

\* texts the pipeline may return in response[0]['generated_text']
AdapterOutputs(p) ==
    {p \o <<" ", "a">>, p \o <<" ", "a", NL>> \o F_UserColon \o <<" ", "b">>,
     p \o <<NL, NL, "a">>, <<" ", "a", NL, NL>>, p}

\* the steps inside main's try block (lines 148-166)
InitTrySteps == {"init_tokenizer", "init_model", "init_pipeline"}
GenSteps == {"gen_seed", "gen_format", "gen_call", "gen_clean"}
TrySteps ==
    {"init_device", "init_except", "gen_except", "emit", "emitted"}
        \cup InitTrySteps \cup GenSteps
\* the steps of main outside its try block
OutsideTrySteps == {"parse", "main_except"}

InitAdapter ==
    /\ pc = "parse"
    /\ model_name = Unset /\ prompt = Unset
    /\ formatted_prompt = Unset /\ generated_text = Unset
    /\ response = Unset /\ recleaned = Unset
    /\ IdleLlm /\ IdleProc /\ IdleInst

\* parser.parse_args() with a well-formed command line
ParseArgs ==
    /\ pc = "parse"
    /\ \E m \in AdapterModels, p \in AdapterPrompts :
          /\ model_name' = m
          /\ prompt' = p
    /\ pc' = "init_device"
    /\ UNCHANGED <<formatted_prompt, generated_text, response, recleaned>>
    /\ UNCHANGED <<llmVars, procVars, instVars>>

\* parser.parse_args() without the positional prompt: usage on the error
\* stream and SystemExit(2)
ParseError ==
    /\ pc = "parse"
    /\ stderr' = Append(stderr, "usage")
    /\ exitCode' = 2
    /\ pc' = "done"
    /\ UNCHANGED <<stdout, raisedAt, raisedMsg, interruptedAt>>
    /\ UNCHANGED <<textVars, llmVars, instVars>>

\* an Exception with message msg leaves the current step for handler h
Raise(msg, h) ==
    /\ raisedAt' = pc
    /\ raisedMsg' = msg
    /\ pc' = h

\* LocalLLM.__init__ before its try block
InitDevice ==
    /\ pc = "init_device"
    /\ \/ /\ \E d \in {"cuda", "cpu"} : device' = d
          /\ stderr' = Append(stderr, "Loading model")
          /\ pc' = "init_tokenizer"
          /\ UNCHANGED <<raisedAt, raisedMsg>>
       \/ /\ \E msg \in Messages : Raise(msg, "main_except")
          /\ UNCHANGED <<device, stderr>>
    /\ UNCHANGED <<tokenizer, model, generator, seed, genCalls, loads>>
    /\ UNCHANGED <<stdout, exitCode, interruptedAt>>
    /\ UNCHANGED <<textVars, instVars>>

\* AutoTokenizer.from_pretrained and the pad-token aliasing
InitTokenizer ==
    /\ pc = "init_tokenizer"
    /\ loads' = Append(loads, <<"tokenizer", model_name>>)
    /\ \/ /\ \E pad \in {"none", "pad"} :
                tokenizer' = [pad_token |-> IF pad = "none" THEN "eos" ELSE pad,
                              eos_token |-> "eos", padding_side |-> "left"]
          /\ pc' = "init_model"
          /\ UNCHANGED <<raisedAt, raisedMsg>>
       \/ /\ \E msg \in Messages : Raise(msg, "init_except")
          /\ UNCHANGED tokenizer
    /\ UNCHANGED <<device, model, generator, seed, genCalls>>
    /\ UNCHANGED <<stdout, stderr, exitCode, interruptedAt>>
    /\ UNCHANGED <<textVars, instVars>>

\* AutoModelForCausalLM.from_pretrained and the move to the device
InitModel ==
    /\ pc = "init_model"
    /\ loads' = Append(loads, <<"model", model_name>>)
    /\ \/ /\ model' = [torch_dtype |-> IF device = "cuda" THEN "float16" ELSE "float32",
                       device_map |-> IF device = "cuda" THEN "auto" ELSE "None",
                       on |-> device]
          /\ pc' = "init_pipeline"
          /\ UNCHANGED <<raisedAt, raisedMsg>>
       \/ /\ \E msg \in Messages : Raise(msg, "init_except")
          /\ UNCHANGED model
    /\ UNCHANGED <<device, tokenizer, generator, seed, genCalls>>
    /\ UNCHANGED <<stdout, stderr, exitCode, interruptedAt>>
    /\ UNCHANGED <<textVars, instVars>>

\* pipeline("text-generation", ...)
InitPipeline ==
    /\ pc = "init_pipeline"
    /\ \/ /\ generator' = [model |-> model, tokenizer |-> tokenizer,
                           device |-> IF device = "cuda" THEN 0 ELSE -1]
          /\ stderr' = Append(stderr, "Model loaded successfully!")
          /\ pc' = "gen_seed"
          /\ UNCHANGED <<raisedAt, raisedMsg>>
       \/ /\ \E msg \in Messages : Raise(msg, "init_except")
          /\ UNCHANGED <<generator, stderr>>
    /\ UNCHANGED <<device, tokenizer, model, seed, genCalls, loads>>
    /\ UNCHANGED <<stdout, exitCode, interruptedAt>>
    /\ UNCHANGED <<textVars, instVars>>

\* mutant of InitExcept: the handler logs and forgets sys.exit(1)
InitExceptNoExit ==
    /\ pc = "init_except"
    /\ stderr' = Append(stderr, "Error loading model")
    /\ pc' = "gen_seed"
    /\ UNCHANGED <<stdout, exitCode, raisedAt, raisedMsg, interruptedAt>>
    /\ UNCHANGED <<textVars, llmVars, instVars>>

\* except Exception in __init__: sys.exit(1) raises SystemExit, which neither
\* handler of main catches
InitExcept ==
    /\ pc = "init_except"
    /\ stderr' = Append(stderr, "Error loading model")
    /\ exitCode' = 1
    /\ pc' = "done"
    /\ UNCHANGED <<stdout, raisedAt, raisedMsg, interruptedAt>>
    /\ UNCHANGED <<textVars, llmVars, instVars>>

\* mutant of GenSeed: the seed is never set
GenSeedSkipped ==
    /\ pc = "gen_seed"
    /\ pc' = "gen_format"
    /\ UNCHANGED <<textVars, llmVars, procVars, instVars>>

\* set_seed(42)
GenSeed ==
    /\ pc = "gen_seed"
    /\ \/ /\ seed' = Seed
          /\ pc' = "gen_format"
          /\ UNCHANGED <<raisedAt, raisedMsg>>
       \/ /\ \E msg \in Messages : Raise(msg, "gen_except")
          /\ UNCHANGED seed
    /\ UNCHANGED <<device, tokenizer, model, generator, genCalls, loads>>
    /\ UNCHANGED <<stdout, stderr, exitCode, interruptedAt>>
    /\ UNCHANGED <<textVars, instVars>>

\* formatted_prompt = self._format_prompt(prompt)
GenFormat ==
    /\ pc = "gen_format"
    /\ formatted_prompt' = format_prompt(model_name, prompt)
    /\ pc' = "gen_call"
    /\ UNCHANGED <<model_name, prompt, generated_text, response, recleaned>>
    /\ UNCHANGED <<llmVars, procVars, instVars>>

\* response = self.generator(formatted_prompt, ...)
GenCall ==
    /\ pc = "gen_call"
    /\ genCalls' = genCalls + 1
    /\ \/ /\ generated_text' \in AdapterOutputs(formatted_prompt)
          /\ pc' = "gen_clean"
          /\ UNCHANGED <<raisedAt, raisedMsg>>
       \/ /\ \E msg \in Messages : Raise(msg, "gen_except")
          /\ UNCHANGED generated_text
    /\ UNCHANGED <<model_name, prompt, formatted_prompt, response, recleaned>>
    /\ UNCHANGED <<device, tokenizer, model, generator, seed, loads>>
    /\ UNCHANGED <<stdout, stderr, exitCode, interruptedAt>>
    /\ UNCHANGED instVars

\* response[0]['generated_text'], _clean_response, return
GenClean ==
    /\ pc = "gen_clean"
    /\ \/ /\ response' = clean_response(generated_text, formatted_prompt)
          /\ pc' = "emit"
          /\ UNCHANGED <<raisedAt, raisedMsg>>
       \/ /\ Raise(E_Index, "gen_except")
          /\ UNCHANGED response
    /\ UNCHANGED <<model_name, prompt, formatted_prompt, generated_text, recleaned>>
    /\ UNCHANGED <<stdout, stderr, exitCode, interruptedAt>>
    /\ UNCHANGED <<llmVars, instVars>>

\* mutant of GenExcept: the handler logs and re-raises
GenExceptReraise ==
    /\ pc = "gen_except"
    /\ stderr' = Append(stderr, "Error generating response")
    /\ pc' = "main_except"
    /\ UNCHANGED <<stdout, exitCode, raisedAt, raisedMsg, interruptedAt>>
    /\ UNCHANGED <<textVars, llmVars, instVars>>

\* except Exception in generate_response
GenExcept ==
    /\ pc = "gen_except"
    /\ stderr' = Append(stderr, "Error generating response")
    /\ response' = S_ErrorPrefix \o raisedMsg
    /\ pc' = "emit"
    /\ UNCHANGED <<model_name, prompt, formatted_prompt, generated_text, recleaned>>
    /\ UNCHANGED <<stdout, exitCode, raisedAt, raisedMsg, interruptedAt>>
    /\ UNCHANGED <<llmVars, instVars>>

\* print(json.dumps(result)): one line, the object with these keys
Emit ==
    /\ pc = "emit"
    /\ stdout' = Append(stdout, [text |-> response, model |-> model_name, prompt |-> prompt])
    /\ pc' = "emitted"
    /\ UNCHANGED <<stderr, exitCode, raisedAt, raisedMsg, interruptedAt>>
    /\ UNCHANGED <<textVars, llmVars, instVars>>

\* main returns and the interpreter exits
Return ==
    /\ pc = "emitted"
    /\ exitCode' = 0
    /\ pc' = "done"
    /\ UNCHANGED <<stdout, stderr, raisedAt, raisedMsg, interruptedAt>>
    /\ UNCHANGED <<textVars, llmVars, instVars>>

\* mutant of Interrupt: the handler prints and forgets sys.exit(1)
InterruptNoExit ==
    /\ pc \in TrySteps
    /\ interruptedAt' = pc
    /\ genCalls' \in IF pc = "gen_call" THEN {genCalls, genCalls + 1} ELSE {genCalls}
    /\ stdout' = Append(stdout, [error |-> S_Interrupted])
    /\ exitCode' = 0
    /\ pc' = "done"
    /\ UNCHANGED <<stderr, raisedAt, raisedMsg>>
    /\ UNCHANGED <<device, tokenizer, model, generator, seed, loads>>
    /\ UNCHANGED <<textVars, instVars>>

\* except KeyboardInterrupt in main: the signal arrives at a step of the try
\* block (at "gen_call": before the pipeline is entered, or inside it)
Interrupt ==
    /\ pc \in TrySteps
    /\ interruptedAt' = pc
    /\ genCalls' \in IF pc = "gen_call" THEN {genCalls, genCalls + 1} ELSE {genCalls}
    /\ stdout' = Append(stdout, [error |-> S_Interrupted])
    /\ exitCode' = 1
    /\ pc' = "done"
    /\ UNCHANGED <<stderr, raisedAt, raisedMsg>>
    /\ UNCHANGED <<device, tokenizer, model, generator, seed, loads>>
    /\ UNCHANGED <<textVars, instVars>>

\* KeyboardInterrupt outside the try block: nothing catches it, the
\* interpreter prints a traceback and dies of SIGINT (status 130)
InterruptOutsideTry ==
    /\ pc \in OutsideTrySteps
    /\ interruptedAt' = pc
    /\ stderr' = Append(stderr, "Traceback")
    /\ exitCode' = 130
    /\ pc' = "done"
    /\ UNCHANGED <<stdout, raisedAt, raisedMsg>>
    /\ UNCHANGED <<textVars, llmVars, instVars>>

\* except Exception in main
MainExcept ==
    /\ pc = "main_except"
    /\ stdout' = Append(stdout, [error |-> raisedMsg])
    /\ exitCode' = 1
    /\ pc' = "done"
    /\ UNCHANGED <<stderr, raisedAt, raisedMsg, interruptedAt>>
    /\ UNCHANGED <<textVars, llmVars, instVars>>

NextAdapter ==
    \/ ParseArgs \/ ParseError
    \/ InitDevice \/ InitTokenizer \/ InitModel \/ InitPipeline \/ InitExcept
    \/ GenSeed \/ GenFormat \/ GenCall \/ GenClean \/ GenExcept
    \/ Emit \/ Return
    \/ Interrupt \/ InterruptOutsideTry \/ MainExcept

SpecAdapter == InitAdapter /\ [][NextAdapter]_vars

-----------------------------------------------------------------------------
(* The installer: main() of setup_local_llm.py.                            *)

\* the fixed list of requirements
packages ==
    <<"torch>=2.0.0", "transformers>=4.35.0", "accelerate>=0.21.0",
      "sentencepiece>=0.1.99", "protobuf>=3.20.0", "safetensors>=0.3.0",
      "tokenizers>=0.14.0">>

InitInstall ==
    /\ pc = "version_check"
    /\ model_name = Unset /\ prompt = Unset
    /\ formatted_prompt = Unset /\ generated_text = Unset
    /\ response = Unset /\ recleaned = Unset
    /\ IdleLlm /\ IdleProc /\ IdleInst

\* if sys.version_info < (3, 8): sys.exit(1)
VersionCheck ==
    /\ pc = "version_check"
    /\ \/ /\ pc' = "install"
          /\ UNCHANGED exitCode
       \/ /\ exitCode' = 1
          /\ pc' = "done"
    /\ UNCHANGED <<stdout, stderr, raisedAt, raisedMsg, interruptedAt>>
    /\ UNCHANGED <<textVars, llmVars, instVars>>

\* install_package(package): pip exits with status 0 or not
\* (subprocess.CalledProcessError is caught and turned into False)
install_package(package, pip_ok) == pip_ok

\* mutant of InstallNext: the run is abandoned at the first failure
InstallNextAbort ==
    /\ pc = "install"
    /\ idx <= Len(packages)
    /\ attempts' = Append(attempts, packages[idx])
    /\ idx' = idx + 1
    /\ \E pip_ok \in BOOLEAN :
          IF install_package(packages[idx], pip_ok)
          THEN /\ UNCHANGED <<pc, failed_packages, exitCode>>
          ELSE /\ failed_packages' = Append(failed_packages, packages[idx])
               /\ exitCode' = 1
               /\ pc' = "done"
    /\ UNCHANGED verified
    /\ UNCHANGED <<stdout, stderr, raisedAt, raisedMsg, interruptedAt>>
    /\ UNCHANGED <<textVars, llmVars>>

\* one iteration of "for package in packages"
InstallNext ==
    /\ pc = "install"
    /\ idx <= Len(packages)
    /\ attempts' = Append(attempts, packages[idx])
    /\ \E pip_ok \in BOOLEAN :
          failed_packages' =
              IF install_package(packages[idx], pip_ok)
              THEN failed_packages
              ELSE Append(failed_packages, packages[idx])
    /\ idx' = idx + 1
    /\ UNCHANGED <<pc, verified>>
    /\ UNCHANGED <<textVars, llmVars, procVars>>

\* if failed_packages: ... sys.exit(1)
CheckFailed ==
    /\ pc = "install"
    /\ idx > Len(packages)
    /\ \/ /\ failed_packages # <<>>
          /\ exitCode' = 1
          /\ pc' = "done"
       \/ /\ failed_packages = <<>>
          /\ pc' = "test"
          /\ UNCHANGED exitCode
    /\ UNCHANGED <<stdout, stderr, raisedAt, raisedMsg, interruptedAt>>
    /\ UNCHANGED <<textVars, llmVars, instVars>>

\* import torch, import transformers, torch.cuda.is_available()
TestInstallation ==
    /\ pc = "test"
    /\ \/ /\ verified' = "ok"
          /\ exitCode' = 0
       \/ /\ verified' = "failed"
          /\ exitCode' = 1
    /\ pc' = "done"
    /\ UNCHANGED <<idx, failed_packages, attempts>>
    /\ UNCHANGED <<stdout, stderr, raisedAt, raisedMsg, interruptedAt>>
    /\ UNCHANGED <<textVars, llmVars>>

NextInstall == VersionCheck \/ InstallNext \/ CheckFailed \/ TestInstallation

SpecInstall == InitInstall /\ [][NextInstall]_vars

-----------------------------------------------------------------------------
(* Vocabulary of the properties, defined without the operators above.      *)

\* t occurs in s at the 0-based index i
OccursAt(s, t, i) == i + Len(t) <= Len(s) /\ SubSeq(s, i + 1, i + Len(t)) = t
Occurs(s, t) == \E i \in 0..Len(s) : OccursAt(s, t, i)

\* "chat" occurs in s in any mix of cases
OccursChatAnyCase(s) ==
    \E i \in 1..(Len(s) - 3) :
        /\ s[i] \in {"c", "C"} /\ s[i + 1] \in {"h", "H"}
        /\ s[i + 2] \in {"a", "A"} /\ s[i + 3] \in {"t", "T"}

Markers == {T_NlUser, T_NlQuestion, T_NlNl, T_UserTag, T_EndOfText}

\* the smallest index at which any marker occurs in s; Len(s) if none does
EarliestMarker(s) ==
    LET hits == {i \in 0..Len(s) : \E m \in Markers : OccursAt(s, m, i)}
    IN  IF hits = {} THEN Len(s) ELSE SetMin(hits)

RECURSIVE LTrim(_)
LTrim(s) == IF s # <<>> /\ Head(s) \in Whitespace THEN LTrim(Tail(s)) ELSE s
RECURSIVE RTrim(_)
RTrim(s) ==
    IF s # <<>> /\ s[Len(s)] \in Whitespace THEN RTrim(SubSeq(s, 1, Len(s) - 1)) ELSE s
Trim(s) == RTrim(LTrim(s))

Trimmed(s) == s = <<>> \/ (s[1] \notin Whitespace /\ s[Len(s)] \notin Whitespace)

\* the generated text without its echo of the formatted prompt
AfterPrompt(text, p) ==
    IF Len(text) >= Len(p) /\ SubSeq(text, 1, Len(p)) = p
    THEN SubSeq(text, Len(p) + 1, Len(text))
    ELSE text

Echoes(text, p) == Len(text) >= Len(p) /\ SubSeq(text, 1, Len(p)) = p

Cleaned == pc \in {"cleaned", "recleaned"}

-----------------------------------------------------------------------------
(* Properties of _format_prompt (SpecFormat).                              *)

\* C4: _format_prompt returns the template of the first matching rule, in
\* the order DialoGPT, then TinyLlama or case-insensitive "chat", then the
\* generic Question/Answer template; a name matching rules 1 and 2 gets the
\* rule-1 template.
C4_FirstMatchingTemplate ==
    pc = "formatted" =>
        LET dialo == Occurs(model_name, S_DialoGPT)
            chat == Occurs(model_name, S_TinyLlama) \/ OccursChatAnyCase(model_name)
        IN  /\ dialo => formatted_prompt = S_User \o prompt \o S_Bot
            /\ ~dialo /\ chat => formatted_prompt = S_UserTag \o prompt \o S_AssistantTag
            /\ ~dialo /\ ~chat => formatted_prompt = S_Question \o prompt \o S_Answer

\* C4 witness: a name matching rule 1 and rule 2 has been formatted with
\* "Tell me a joke" and the result is "User: Tell me a joke\nBot:".
C4_Witness ==
    /\ pc = "formatted"
    /\ Occurs(model_name, S_DialoGPT)
    /\ OccursChatAnyCase(model_name)
    /\ prompt = P_Joke
    /\ formatted_prompt = X_JokeFormatted

-----------------------------------------------------------------------------
(* Properties of _clean_response (SpecClean).                              *)

\* C5 as stated: the result is the trimmed prefix of the prompt-stripped
\* text (the text after the echoed prompt, or the trimmed whole text when
\* the prompt is not echoed) that ends at the earliest marker.
C5_EarliestMarkerOfStripped ==
    Cleaned =>
        LET rest == IF Echoes(generated_text, formatted_prompt)
                    THEN AfterPrompt(generated_text, formatted_prompt)
                    ELSE Trim(generated_text)
        IN  response = Trim(SubSeq(rest, 1, EarliestMarker(rest)))

\* C5 amended: the result is the trimmed prefix, ending at the earliest
\* occurrence of any of the five markers, of the prompt-stripped text after
\* that text has itself been trimmed of surrounding whitespace.
C5_EarliestMarkerOfTrimmed ==
    Cleaned =>
        LET rest == Trim(AfterPrompt(generated_text, formatted_prompt))
        IN  response = Trim(SubSeq(rest, 1, EarliestMarker(rest)))

\* C5 witness: "Question: Hi\nAnswer: I am fine\nUser: next" has been
\* cleaned against "Question: Hi\nAnswer:" and gave "I am fine".
C5_Witness ==
    /\ pc = "cleaned"
    /\ formatted_prompt = S_Question \o P_Hi \o S_Answer
    /\ generated_text = X_Example
    /\ response = X_IAmFine

\* C6 as stated: cleaning the cleaned text again changes nothing.
C6_Idempotent == pc = "recleaned" => recleaned = response

\* C6 amended: cleaning the cleaned text again changes nothing whenever the
\* cleaned text does not itself begin with the formatted prompt.
C6_IdempotentUnlessPromptRemains ==
    pc = "recleaned" /\ ~Echoes(response, formatted_prompt) => recleaned = response

\* C6 witness: an echoed prompt was removed and the rest cut at a marker,
\* the result does not begin with the prompt, and it was cleaned again.
C6_Witness ==
    /\ pc = "recleaned"
    /\ Echoes(generated_text, formatted_prompt)
    /\ response # <<>>
    /\ ~Echoes(response, formatted_prompt)
    /\ Len(response) + 2 < Len(generated_text) - Len(formatted_prompt)
    /\ recleaned = response

\* C10: the cleaned text contains none of the five markers and has no
\* leading or trailing whitespace, with or without an echoed prompt.
C10_NoMarkerNoOuterWhitespace ==
    Cleaned =>
        /\ \A m \in Markers : ~Occurs(response, m)
        /\ Trimmed(response)

\* C10 witness: the fallback branch: a text that does not echo the prompt,
\* starts with whitespace and contains a marker was cleaned to a non-empty
\* result.
C10_Witness ==
    /\ pc = "cleaned"
    /\ ~Echoes(generated_text, formatted_prompt)
    /\ generated_text # <<>>
    /\ generated_text[1] \in Whitespace
    /\ \E m \in Markers : Occurs(generated_text, m)
    /\ response # <<>>

-----------------------------------------------------------------------------
(* Properties of the generation adapter (SpecAdapter).                     *)

ResultKeys == {"text", "model", "prompt"}
ErrorKeys == {"error"}

\* the invocation got past argument parsing and no interrupt arrived
\* outside main's try block
RanTryBlock == model_name # Unset /\ interruptedAt \notin OutsideTrySteps

\* every attribute __init__ assigns has been assigned
InitComplete ==
    /\ device \in {"cuda", "cpu"}
    /\ tokenizer # NoObject
    /\ tokenizer.pad_token # "none"
    /\ model # NoObject
    /\ generator # NoObject

\* C1 as stated: every finished invocation has written exactly one line to
\* standard output, an object with the keys {text, model, prompt} or
\* {error}.
C1_ExactlyOneJsonLine ==
    pc = "done" /\ RanTryBlock =>
        /\ Len(stdout) = 1
        /\ DOMAIN stdout[1] \in {ResultKeys, ErrorKeys}

\* C2: an exception inside generate_response does not end the process:
\* generate_response returns a text containing "Error: Could not generate
\* response", main prints it in an object with the keys text, model and
\* prompt, and the exit code is 0.
C2_GenerationFailureIsRecoverable ==
    raisedAt \in GenSteps =>
        /\ pc = "gen_except" => exitCode = -1
        /\ pc \in {"emit", "emitted"} => Occurs(response, S_ErrorMarker)
        /\ pc = "done" /\ interruptedAt = "none" =>
              /\ exitCode = 0
              /\ Len(stdout) = 1
              /\ DOMAIN stdout[1] = ResultKeys
              /\ Occurs(stdout[1].text, S_ErrorMarker)
              /\ stdout[1].model = model_name
              /\ stdout[1].prompt = prompt

\* C2 witness: the pipeline call raised and the process has exited with 0.
C2_Witness ==
    /\ pc = "done"
    /\ raisedAt = "gen_call"
    /\ interruptedAt = "none"
    /\ exitCode = 0

\* C3: an exception during initialization ends the process with exit code
\* 1, standard output holds no object with a text, model or prompt key, and
\* nothing is loaded twice or under another model name.
C3_InitFailureIsFatal ==
    raisedAt \in InitTrySteps \cup {"init_device"} =>
        /\ pc \in {"init_except", "main_except", "done"}
        /\ pc = "done" /\ interruptedAt \notin OutsideTrySteps => exitCode = 1
        /\ \A i \in 1..Len(stdout) : DOMAIN stdout[i] \cap ResultKeys = {}
        /\ genCalls = 0
        /\ \A i \in 1..Len(loads) : loads[i][2] = model_name
        /\ \A i, j \in 1..Len(loads) : loads[i][1] = loads[j][1] => i = j

\* C3 witness: loading the model weights raised and the process has exited.
C3_Witness ==
    /\ pc = "done"
    /\ raisedAt = "init_model"
    /\ interruptedAt = "none"
    /\ exitCode = 1
    /\ stdout = <<>>

\* C8: an interrupt arriving during initialization, during the generation
\* call or while the result is emitted ends with {"error": "Process
\* interrupted"} on standard output and exit code 1; an exception that no
\* inner handler catches ends with {"error": <its message>} and exit code 1.
C8_InterruptAndUncaughtReported ==
    pc = "done" =>
        /\ interruptedAt \in TrySteps =>
              /\ exitCode = 1
              /\ stdout # <<>>
              /\ stdout[Len(stdout)] = [error |-> S_Interrupted]
        /\ raisedAt = "init_device" /\ interruptedAt = "none" =>
              /\ exitCode = 1
              /\ stdout = <<[error |-> raisedMsg]>>

\* C8 witness: the interrupt arrived inside the generation call.
C8_Witness ==
    /\ pc = "done"
    /\ interruptedAt = "gen_call"
    /\ genCalls = 1

\* the part of C9 common to the claim and its amendment: the generation
\* callable is invoked at most once, only after initialization, seeding with
\* 42 and formatting; post-processing and emission follow it.
C9_Order ==
    /\ genCalls <= 1
    /\ formatted_prompt # Unset => InitComplete /\ seed = 42
    /\ genCalls = 1 => InitComplete /\ seed = 42 /\ formatted_prompt # Unset
    /\ generated_text # Unset => genCalls = 1
    /\ pc \in {"emit", "emitted"} /\ raisedAt = "none" =>
          genCalls = 1 /\ generated_text # Unset
    /\ \A i \in 1..Len(stdout) :
          DOMAIN stdout[i] = ResultKeys =>
              /\ pc \in {"emitted", "done"}
              /\ raisedAt \in GenSteps \/ generated_text # Unset

\* C9 as stated: the order holds and the generation callable is invoked
\* exactly once in every run whose initialization succeeded.
C9_ExactlyOnceAfterInit ==
    /\ C9_Order
    /\ pc = "done" /\ InitComplete => genCalls = 1

\* C9 amended: the order holds and the generation callable is invoked
\* exactly once in every run whose initialization succeeded and that reached
\* the call, i.e. was not interrupted and did not fail in seeding or
\* formatting before it.
C9_ExactlyOnceWhenReached ==
    /\ C9_Order
    /\ pc = "done" /\ InitComplete /\ interruptedAt = "none"
          /\ raisedAt \notin {"gen_seed", "gen_format"} => genCalls = 1

\* C9 witness: a complete run that generated once and printed the result.
C9_Witness ==
    /\ pc = "done"
    /\ exitCode = 0
    /\ raisedAt = "none"
    /\ genCalls = 1
    /\ seed = 42
    /\ Len(stdout) = 1

-----------------------------------------------------------------------------
(* Properties of the installer (SpecInstall).                              *)

IsPrefix(s, t) == Len(s) <= Len(t) /\ SubSeq(t, 1, Len(s)) = s

\* C7: the packages are attempted in list order; after a failure all seven
\* are still attempted before the installer exits with a non-zero status
\* without testing the imports; status 0 needs every package installed and
\* the import test passed.
C7_InstallerContinuesPastFailures ==
    /\ IsPrefix(attempts, packages)
    /\ failed_packages # <<>> => pc \in {"install", "done"} /\ verified = "untested"
    /\ pc = "done" /\ failed_packages # <<>> =>
          /\ attempts = packages
          /\ exitCode # 0 /\ exitCode # -1
    /\ exitCode = 0 =>
          /\ pc = "done"
          /\ failed_packages = <<>>
          /\ attempts = packages
          /\ verified = "ok"

\* C7 witness: the second package failed, the other six were attempted and
\* the installer exited with status 1.
C7_Witness ==
    /\ pc = "done"
    /\ failed_packages = <<packages[2]>>
    /\ attempts = packages
    /\ exitCode = 1

====
